---- MODULE Spec2Model ----
(***************************************************************************)
(* Routing engine of cixtor/middleware: the per-method trie of URL         *)
(* patterns (privTrie), the router that owns one trie per HTTP method,     *)
(* the per-host routing table, the request dispatcher (handleRequest) and  *)
(* the middleware chain (Use / compose).                                   *)
(*                                                                         *)
(* A Go string is a sequence of one-character strings; a *privTrieNode is  *)
(* identified by the sequence of map keys that leads to it from the root,  *)
(* so a trie is a function from key paths to node records and              *)
(* node.children[c] != nil  iff  Append(node, c) \in DOMAIN t.             *)
(* An http.Handler is a positive number, 0 is the nil handler.  A          *)
(* map[string]string is a function from names to values; the nil map and   *)
(* the empty map are both the empty function.                              *)
(***************************************************************************)
EXTENDS Integers, Sequences, FiniteSets, TLC

VARIABLES
    trie,       \* a privTrie under test (trie-level specification)
    inserted,   \* the endpoints given to Insert on trie, in call order
    result,     \* the outcome of the Search call in progress, or NoResult
    hosts,      \* the host table: host name -> router.nodes (method -> privTrie)
    registered, \* the register calls made so far: <<host, method, endpoint>>
    chain,      \* Middleware.chain
    used,       \* the wrappers given to Use, in call order
    notFound,   \* Middleware.NotFound
    restrictionType,   \* Middleware.restrictionType
    allowedAddresses,  \* Middleware.allowedAddresses
    deniedAddresses,   \* Middleware.deniedAddresses
    resp,       \* the response to the request in progress, or NoResponse
    dispatcher, \* route.dispatcher of each registered handler
    server,     \* Middleware.serverInstance and the ListenAndServe call
    tasks       \* the requests served at the same time, each with the locals
                \* of its own Search call

vars == <<trie, inserted, result, hosts, registered, chain, used, notFound,
          restrictionType, allowedAddresses, deniedAddresses, resp,
          dispatcher, server, tasks>>

trieVars == <<trie, inserted, result, tasks>>
srvVars == <<hosts, registered, chain, used, notFound, restrictionType,
             allowedAddresses, deniedAddresses, resp, dispatcher,
             server>>

(***************************************************************************)
(* Bounds                                                                  *)
(***************************************************************************)
MaxInserts == 2
MaxPathLen == 4
MaxRoutes == 2
MaxUse == 2

(***************************************************************************)
(* trie.go / endpoint.go: symbols                                          *)
(***************************************************************************)
nps == ":"
sep == "/"
\* the wildcard mark of a pattern and the key of the reserved wildcard slot
all == "*"
globSlot == "<*>"

NilHandler == 0

newPrivTrieNode == [paramKey |-> <<>>, isTheEnd |-> FALSE, handler |-> NilHandler]

newPrivTrie == (<<>> :> newPrivTrieNode)

HasChild(t, node, key) == Append(node, key) \in DOMAIN t

(***************************************************************************)
(* privTrie.Insert                                                         *)
(***************************************************************************)
\* the inner loop of Insert: the characters after the colon at position i,
\* up to the next separator or the end of the endpoint
\* mutant: the name of a parameter also ends at the next colon, which then
\* starts a parameter right below the first one
RECURSIVE ConsumeName_StopAtColon(_, _)
ConsumeName_StopAtColon(endpoint, j) ==
    IF j > Len(endpoint) \/ endpoint[j] = sep \/ endpoint[j] = nps
    THEN <<>>
    ELSE <<endpoint[j]>> \o ConsumeName_StopAtColon(endpoint, j + 1)

RECURSIVE ConsumeName(_, _)
ConsumeName(endpoint, j) ==
    IF j > Len(endpoint) \/ endpoint[j] = sep
    THEN <<>>
    ELSE <<endpoint[j]>> \o ConsumeName(endpoint, j + 1)

ParamName(endpoint, i) ==
    IF endpoint[i] = nps THEN ConsumeName(endpoint, i + 1) ELSE <<>>

\* mutant: the paramKey of a child that exists is set again
AddChild_Overwrite(t, node, key, param) ==
    IF HasChild(t, node, key)
    THEN [t EXCEPT ![Append(node, key)] = [@ EXCEPT !.paramKey = param]]
    ELSE t @@ (Append(node, key) :> [newPrivTrieNode EXCEPT !.paramKey = param])

\* node.children[char] = newPrivTrieNode() with its paramKey, when it is nil
AddChild(t, node, key, param) ==
    IF HasChild(t, node, key)
    THEN t
    ELSE t @@ (Append(node, key) :> [newPrivTrieNode EXCEPT !.paramKey = param])

\* mutant: a node that already ends a pattern keeps its handler
MarkEnd_KeepFirst(t, node, fn) ==
    IF t[node].isTheEnd THEN t
    ELSE [t EXCEPT ![node] = [@ EXCEPT !.isTheEnd = TRUE, !.handler = fn]]

\* the last statement of Insert; the handler is kept on the final node
MarkEnd(t, node, fn) ==
    [t EXCEPT ![node] = [@ EXCEPT !.isTheEnd = TRUE, !.handler = fn]]

\* mutant: every asterisk is the wildcard mark
IsGlobAt_Anywhere(endpoint, i) == endpoint[i] = all

\* an asterisk right after a separator is the wildcard mark of a pattern
IsGlobAt(endpoint, i) ==
    endpoint[i] = all /\ i > 1 /\ endpoint[i - 1] = sep

\* mutant: the asterisk is stored as one more literal character
InsertGlob_AsLiteral(t, node, fn) ==
    MarkEnd(AddChild(t, node, all, <<>>), Append(node, all), fn)

\* the wildcard child is created or reused, made terminal, and Insert stops
InsertGlob(t, node, fn) ==
    MarkEnd(AddChild(t, node, globSlot, <<>>), Append(node, globSlot), fn)

\* mutant: the characters that follow a wildcard mark are inserted below
\* the wildcard slot
RECURSIVE InsertFrom_NoStop(_, _, _, _, _)
InsertFrom_NoStop(t, node, endpoint, i, fn) ==
    IF i > Len(endpoint) THEN MarkEnd(t, node, fn)
    ELSE IF IsGlobAt(endpoint, i)
    THEN InsertFrom_NoStop(AddChild(t, node, globSlot, <<>>),
                           Append(node, globSlot), endpoint, i + 1, fn)
    ELSE LET char == endpoint[i]
             param == ParamName(endpoint, i)
         IN  InsertFrom_NoStop(AddChild(t, node, char, param), Append(node, char),
                               endpoint, i + Len(param) + 1, fn)

RECURSIVE InsertFrom(_, _, _, _, _)
InsertFrom(t, node, endpoint, i, fn) ==
    IF i > Len(endpoint)
    THEN MarkEnd(t, node, fn)
    ELSE IF IsGlobAt(endpoint, i)
    THEN InsertGlob(t, node, fn)
    ELSE LET char == endpoint[i]
             param == ParamName(endpoint, i)
         IN  InsertFrom(AddChild(t, node, char, param), Append(node, char),
                        endpoint, i + Len(param) + 1, fn)

Insert(t, endpoint, fn) == InsertFrom(t, <<>>, endpoint, 1, fn)

(***************************************************************************)
(* privTrie.Search                                                         *)
(***************************************************************************)
NoParams == << >>

\* mutant: a name that is bound already keeps its value
Put_KeepFirst(params, key, value) ==
    IF key \in DOMAIN params THEN params
    ELSE [k \in (DOMAIN params) \cup {key} |-> IF k = key THEN value ELSE params[k]]

\* params[key] = value
Put(params, key, value) ==
    [k \in (DOMAIN params) \cup {key} |-> IF k = key THEN value ELSE params[k]]

\* the index j at which the empty loop of Search stops: the first position
\* from i that holds a separator, or one past the end
\* mutant: the value runs to the end of the endpoint, separators included
ValueEnd_ToEnd(endpoint, j) == Len(endpoint) + 1

RECURSIVE ValueEnd(_, _)
ValueEnd(endpoint, j) ==
    IF j <= Len(endpoint) /\ endpoint[j] # sep
    THEN ValueEnd(endpoint, j + 1)
    ELSE j

HasGlobChild(t, node) == HasChild(t, node, globSlot)

\* mutant: the parameter child is tried before the literal child
SearchStep_ParamFirst(t, node, char) ==
    IF HasChild(t, node, nps) THEN "param"
    ELSE IF HasChild(t, node, char) THEN "literal"
    ELSE IF HasGlobChild(t, node) THEN "glob"
    ELSE "none"

\* mutant: the wildcard child is tried before the parameter child
SearchStep_GlobFirst(t, node, char) ==
    IF HasChild(t, node, char) THEN "literal"
    ELSE IF HasGlobChild(t, node) THEN "glob"
    ELSE IF HasChild(t, node, nps) THEN "param"
    ELSE "none"

\* which continuation Search takes at a node for the current character
SearchStep(t, node, char) ==
    IF HasChild(t, node, char) THEN "literal"
    ELSE IF HasChild(t, node, nps) THEN "param"
    ELSE IF HasGlobChild(t, node) THEN "glob"
    ELSE "none"

Outcome(t, node, params) ==
    [found |-> t[node].isTheEnd, handler |-> t[node].handler, params |-> params]

\* mutant: a path that leaves the trie matches the pattern it extends
NoMatch_Prefix(t, node, params) == Outcome(t, node, params)

\* return false, nil: no child of the node takes the character
NoMatch(t, node, params) ==
    [found |-> FALSE, handler |-> NilHandler, params |-> NoParams]

RECURSIVE SearchFrom(_, _, _, _, _)
SearchFrom(t, node, endpoint, i, params) ==
    IF i > Len(endpoint)
    THEN Outcome(t, node, params)
    ELSE LET step == SearchStep(t, node, endpoint[i])
         IN  CASE step = "literal" ->
                    SearchFrom(t, Append(node, endpoint[i]), endpoint, i + 1, params)
               [] step = "param" ->
                    LET j == ValueEnd(endpoint, i)
                        value == SubSeq(endpoint, i, j - 1)
                        child == Append(node, nps)
                    IN  SearchFrom(t, child, endpoint, (i + Len(value) - 1) + 1,
                                   Put(params, t[child].paramKey, value))
               [] step = "glob" ->
                    Outcome(t, Append(node, globSlot), params)
               [] OTHER -> NoMatch(t, node, params)

\* the path is exactly "/", no pattern "/" ends on the node of the root
\* separator, and that node has a wildcard child
RootGlobCase(t, endpoint) ==
    /\ endpoint = <<sep>>
    /\ HasChild(t, <<>>, sep)
    /\ ~t[<<sep>>].isTheEnd
    /\ HasGlobChild(t, <<sep>>)

\* mutant: a search that fails below the root falls back to the wildcard
\* child of the root separator
Search_RootFallback(t, endpoint) ==
    LET r == SearchFrom(t, <<>>, endpoint, 1, NoParams)
    IN  IF RootGlobCase(t, endpoint)
           \/ (~r.found /\ Len(endpoint) >= 2 /\ endpoint[1] = sep
                  /\ HasGlobChild(t, <<sep>>))
        THEN Outcome(t, <<sep, globSlot>>, NoParams)
        ELSE r

\* mutant: the path "/" is searched like any other path
Search_NoRootCase(t, endpoint) == SearchFrom(t, <<>>, endpoint, 1, NoParams)

\* Search; the root wildcard is matched directly by the path "/", which has
\* no character after the separator to drive the scan
Search(t, endpoint) ==
    IF RootGlobCase(t, endpoint)
    THEN Outcome(t, <<sep, globSlot>>, NoParams)
    ELSE SearchFrom(t, <<>>, endpoint, 1, NoParams)

\* the bindings of a match as the request context keeps them: one entry
\* per name
RECURSIVE ContextParams(_)
ContextParams(params) ==
    IF DOMAIN params = {} THEN <<>>
    ELSE LET name == CHOOSE k \in DOMAIN params : TRUE
         IN  <<[Name |-> name, Value |-> params[name]]>> \o
             ContextParams([k \in (DOMAIN params) \ {name} |-> params[k]])

\* Param: the value of the first entry that has the name, "" when there is
\* none
RECURSIVE ParamFrom(_, _, _)
ParamFrom(list, key, k) ==
    IF k > Len(list) THEN <<>>
    ELSE IF list[k].Name = key THEN list[k].Value
    ELSE ParamFrom(list, key, k + 1)

Param(list, key) == ParamFrom(list, key, 1)

\* the number of iterations of the loop of Search, each one a transition
\* to a child or the return of no match
RECURSIVE Iterations(_, _, _, _)
Iterations(t, node, endpoint, i) ==
    IF i > Len(endpoint) THEN 0
    ELSE LET step == SearchStep(t, node, endpoint[i])
         IN  CASE step = "literal" ->
                    1 + Iterations(t, Append(node, endpoint[i]), endpoint, i + 1)
               [] step = "param" ->
                    LET value == SubSeq(endpoint, i, ValueEnd(endpoint, i) - 1)
                    IN  1 + Iterations(t, Append(node, nps), endpoint,
                                       (i + Len(value) - 1) + 1)
               [] OTHER -> 1

\* mutant: reading node.children[char] creates the child that is missing
TrieAfterSearch_Create(t, endpoint) ==
    t @@ [n \in {SubSeq(endpoint, 1, k) : k \in 1..Len(endpoint)} |-> newPrivTrieNode]

\* the trie as Search leaves it: Search reads node.children[char],
\* node.children[nps].paramKey and node.isTheEnd, and assigns only to its
\* own node, i and params
TrieAfterSearch(t, endpoint) == t

(***************************************************************************)
(* Inputs of the trie-level specification                                  *)
(***************************************************************************)
PathChars == {"/", "a", "b"}

RECURSIVE SeqsUpTo(_, _)
SeqsUpTo(S, n) ==
    IF n = 0 THEN {<<>>}
    ELSE LET shorter == SeqsUpTo(S, n - 1)
         IN  shorter \cup {Append(s, c) : s \in shorter, c \in S}

\* some longer paths: deeper segments and longer parameter values
LongPaths ==
    { <<"/", "a", "/", "b", "/", "a">>,
      <<"/", "a", "/", "a", "/", "b", "/">>,
      <<"/", "a", "b", "/", "b", "a">>,
      <<"/", "b", "/", "a", "/", "b">> }

\* request paths: the strings that start with a separator
Paths ==
    {p \in SeqsUpTo(PathChars, MaxPathLen) : Len(p) > 0 /\ p[1] = sep}
        \cup LongPaths

Patterns ==
    { <<"/">>,
      <<"/", "a">>,
      <<"/", "a", "/", "b">>,
      <<"/", ":", "x">>,
      <<"/", ":", "y", "/", "b">>,
      <<"/", ":", "x", "/", ":", "x">>,
      <<"/", ":", "x", "/", ":", "z">>,
      <<"/", "*">>,
      <<"/", "a", "/", "*">> }

NoResult == [path |-> <<>>, found |-> FALSE, handler |-> NilHandler,
             params |-> NoParams, done |-> FALSE]

\* net/http serves every connection in a goroutine of its own
Tasks == {1, 2}

NoTask == [pc |-> "idle", path |-> <<>>, i |-> 0, node |-> <<>>,
           params |-> NoParams, handler |-> NilHandler, seen |-> NoParams]

NoTasks == [k \in Tasks |-> NoTask]


(***************************************************************************)
(* Middleware: the chain of wrappers (Use, compose)                        *)
(***************************************************************************)
NilChain == [op |-> "nil"]

\* a wrapper given to Use, func(http.Handler) http.Handler
Wrapper(w) == [op |-> "wrapper", w |-> w]

\* the closure func(h) { return g(f(h)) }: f is applied first, then g
compose(f, g) == [op |-> "compose", first |-> f, then |-> g]

\* calling a chain value on a handler h
RECURSIVE Apply(_, _)
Apply(c, h) ==
    IF c.op = "wrapper" THEN [kind |-> "wrapped", w |-> c.w, next |-> h]
    ELSE Apply(c.then, Apply(c.first, h))

\* ServeHTTP of a handler: a wrapper of the kind the tests use runs its own
\* code, calls next.ServeHTTP and runs the code that follows the call
RECURSIVE ServeHTTP(_)
ServeHTTP(h) ==
    IF h.kind = "wrapped"
    THEN <<[ev |-> "before", by |-> h.w]>> \o ServeHTTP(h.next)
             \o <<[ev |-> "after", by |-> h.w]>>
    ELSE <<[ev |-> "serve", by |-> h]>>

\* the composed chain around the handler that ends the request
Chained(c, h) == IF c = NilChain THEN h ELSE Apply(c, h)

(***************************************************************************)
(* Inputs of the server-level specification                                *)
(***************************************************************************)
DefaultHost == "<default>"
NamedHosts == {"foo.test"}
RequestHosts == {"foo.test", "bar.test"}
HostSeq == <<DefaultHost, "foo.test">>
MethodSeq == <<"GET", "POST">>
EndpointSeq == << <<"/", "a">>, <<"/", ":", "x">> >>
Methods == {MethodSeq[i] : i \in 1..Len(MethodSeq)}
Endpoints == {EndpointSeq[i] : i \in 1..Len(EndpointSeq)}
RequestPaths ==
    { <<>>, <<"a">>, <<"/">>, <<"/", "a">>, <<"/", "b">>,
      <<"/", "a", "/", "b">> }
Addresses == {"10.0.0.1", "10.0.0.2"}
AddressLists == {{"10.0.0.1"}}

Index(seq, x) == CHOOSE i \in 1..Len(seq) : seq[i] = x

\* every register call passes a handler of its own, numbered after the
\* host, method and endpoint of the call
HandlerOf(host, method, endpoint) ==
    ((Index(HostSeq, host) - 1) * Len(MethodSeq) + (Index(MethodSeq, method) - 1))
        * Len(EndpointSeq) + Index(EndpointSeq, endpoint)

NoResponse ==
    [host |-> "", method |-> "", path |-> <<>>, addr |-> "", status |-> 0,
     searched |-> FALSE, served |-> [kind |-> "none"], params |-> NoParams,
     trace |-> <<>>, done |-> FALSE]

\* no ListenAndServe call was made yet; atStart notes the host table and
\* the chain of the moment the server begins to serve
NoServer ==
    [pc |-> "idle", instance |-> FALSE, shuttingDown |-> FALSE,
     shutdown |-> "none", returned |-> "none", stoppedBy |-> "none",
     atStart |-> "none"]

(***************************************************************************)
(* Server-level specification: registration, Use, settings and requests    *)
(***************************************************************************)
SrvInit ==
    /\ hosts = (DefaultHost :> << >>)
    /\ registered = {}
    /\ chain = NilChain
    /\ used = <<>>
    /\ notFound = "nil"
    /\ restrictionType = "none"
    /\ allowedAddresses = {}
    /\ deniedAddresses = {}
    /\ resp = NoResponse
    /\ dispatcher = << >>
    /\ server = NoServer

\* Middleware.Host(name): the router of a named host, created on first use
Host(name) ==
    /\ resp = NoResponse
    /\ name \notin DOMAIN hosts
    /\ hosts' = hosts @@ (name :> << >>)
    /\ UNCHANGED <<registered, chain, used, notFound, restrictionType,
                   allowedAddresses, deniedAddresses, resp>>
    /\ UNCHANGED <<trieVars, dispatcher, server>>

\* router.register: the trie of the method is created when missing, then
\* the endpoint is inserted with its handler
register(nodes, method, endpoint, fn) ==
    LET t == IF method \in DOMAIN nodes THEN nodes[method] ELSE newPrivTrie
    IN  [m \in (DOMAIN nodes) \cup {method} |->
            IF m = method THEN Insert(t, endpoint, fn) ELSE nodes[m]]

\* GET, POST, ... and Handle on the router of a host
RegisterRoute(host, method, endpoint) ==
    /\ resp = NoResponse
    /\ host \in DOMAIN hosts
    /\ Cardinality(registered) < MaxRoutes
    /\ <<host, method, endpoint>> \notin registered
    /\ hosts' = [hosts EXCEPT ![host] =
                    register(@, method, endpoint, HandlerOf(host, method, endpoint))]
    /\ registered' = registered \cup {<<host, method, endpoint>>}
    /\ UNCHANGED <<chain, used, notFound, restrictionType, allowedAddresses,
                   deniedAddresses, resp>>
    /\ UNCHANGED <<trieVars, server>>

\* Middleware.handle: the handler is wrapped with the chain of the moment of
\* the call (node.dispatcher = m.chain(handle).ServeHTTP) and stored as the
\* dispatcher of the route
Register(host, method, endpoint) ==
    /\ RegisterRoute(host, method, endpoint)
    /\ dispatcher' = dispatcher @@
          (HandlerOf(host, method, endpoint) :>
              Chained(chain, [kind |-> "route",
                              fn |-> HandlerOf(host, method, endpoint)]))

\* Middleware.Use; the i-th call passes wrapper i
Use ==
    /\ resp = NoResponse
    /\ Len(used) < MaxUse
    /\ LET f == Wrapper(Len(used) + 1)
       IN  /\ chain' = IF chain = NilChain THEN f ELSE compose(f, chain)
           /\ used' = Append(used, Len(used) + 1)
    /\ UNCHANGED <<hosts, registered, notFound, restrictionType,
                   allowedAddresses, deniedAddresses, resp>>
    /\ UNCHANGED <<trieVars, dispatcher, server>>

\* m.NotFound = handler
SetNotFound ==
    /\ resp = NoResponse
    /\ notFound = "nil"
    /\ notFound' = "custom"
    /\ UNCHANGED <<hosts, registered, chain, used, restrictionType,
                   allowedAddresses, deniedAddresses, resp>>
    /\ UNCHANGED <<trieVars, dispatcher, server>>

AllowAccessExcept(ips) ==
    /\ resp = NoResponse
    /\ restrictionType = "none"
    /\ restrictionType' = "AllowAccessExcept"
    /\ deniedAddresses' = ips
    /\ UNCHANGED <<hosts, registered, chain, used, notFound, allowedAddresses, resp>>
    /\ UNCHANGED <<trieVars, dispatcher, server>>

DenyAccessExcept(ips) ==
    /\ resp = NoResponse
    /\ restrictionType = "none"
    /\ restrictionType' = "DenyAccessExcept"
    /\ allowedAddresses' = ips
    /\ UNCHANGED <<hosts, registered, chain, used, notFound, deniedAddresses, resp>>
    /\ UNCHANGED <<trieVars, dispatcher, server>>

\* mutant: a Host value that was not registered is served by a named host
RouterOf_AnyNamed(hs, host) ==
    IF host \in DOMAIN hs THEN hs[host]
    ELSE IF DOMAIN hs # {DefaultHost}
    THEN hs[CHOOSE h \in DOMAIN hs : h # DefaultHost]
    ELSE hs[DefaultHost]

\* mutant: every request is served by the default host
RouterOf_AlwaysDefault(hs, host) == hs[DefaultHost]

\* the router that serves a Host value: its own when the host was
\* registered, the one of the default host otherwise
RouterOf(hs, host) == IF host \in DOMAIN hs THEN hs[host] ELSE hs[DefaultHost]

\* http.Error(w, http.StatusText(code), code): no handler is called
ErrorResponse(host, method, path, addr, code) ==
    [host |-> host, method |-> method, path |-> path, addr |-> addr,
     status |-> code, searched |-> FALSE, served |-> [kind |-> "none"],
     params |-> NoParams, trace |-> <<>>, done |-> TRUE]

\* the request ends in handler h: child.dispatcher(w, r) for a route, and
\* m.NotFound.ServeHTTP(w, r) or http.NotFound(w, r), called directly,
\* otherwise; a status of 0 is the status the application handler chooses
Served(host, method, path, addr, code, h, params) ==
    [host |-> host, method |-> method, path |-> path, addr |-> addr,
     status |-> code, searched |-> TRUE, served |-> h, params |-> params,
     trace |-> ServeHTTP(IF h.kind = "route" THEN dispatcher[h.fn] ELSE h),
     done |-> TRUE]

MethodKnown(nodes, method) == method \in DOMAIN nodes

\* mutant: only the empty path is malformed
ValidPath_OnlyEmpty(path) == ~(path = <<>>)

ValidPath(path) == ~(path = <<>> \/ path[1] # "/")

Denied(addr) ==
    \/ restrictionType = "AllowAccessExcept" /\ addr \in deniedAddresses
    \/ restrictionType = "DenyAccessExcept" /\ addr \notin allowedAddresses

\* the end of handleRequest: the search in the trie of the method, then the
\* NotFound handler, http.NotFound or the handler of the route
dispatch(nodes, host, method, path, addr) ==
    LET r == Search(nodes[method], path)
    IN  IF ~r.found \/ r.handler = NilHandler
        THEN IF notFound # "nil"
             THEN Served(host, method, path, addr, 0,
                         [kind |-> "notfound"], NoParams)
             ELSE Served(host, method, path, addr, 404,
                         [kind |-> "http.NotFound"], NoParams)
        ELSE Served(host, method, path, addr, 0,
                    [kind |-> "route", fn |-> r.handler], r.params)

\* mutant: the path is checked before the method
handleRequest_PathFirst(host, method, path, addr) ==
    LET nodes == RouterOf(hosts, host)
    IN  IF ~ValidPath(path)
        THEN ErrorResponse(host, method, path, addr, 400)
        ELSE IF ~MethodKnown(nodes, method)
        THEN ErrorResponse(host, method, path, addr, 405)
        ELSE IF Denied(addr)
        THEN ErrorResponse(host, method, path, addr, 403)
        ELSE dispatch(nodes, host, method, path, addr)

\* mutant: the request is served from the host table of the moment the
\* server began to serve
handleRequest_StateAtStart(host, method, path, addr) ==
    LET nodes == RouterOf(server.atStart.hosts, host)
    IN  IF ~MethodKnown(nodes, method)
        THEN ErrorResponse(host, method, path, addr, 405)
        ELSE IF ~ValidPath(path)
        THEN ErrorResponse(host, method, path, addr, 400)
        ELSE IF Denied(addr)
        THEN ErrorResponse(host, method, path, addr, 403)
        ELSE dispatch(nodes, host, method, path, addr)

handleRequest(host, method, path, addr) ==
    LET nodes == RouterOf(hosts, host)
    IN  IF ~MethodKnown(nodes, method)
        THEN ErrorResponse(host, method, path, addr, 405)
        ELSE IF ~ValidPath(path)
        THEN ErrorResponse(host, method, path, addr, 400)
        ELSE IF Denied(addr)
        THEN ErrorResponse(host, method, path, addr, 403)
        ELSE dispatch(nodes, host, method, path, addr)

HandleRequest(host, method, path, addr) ==
    /\ resp = NoResponse
    /\ resp' = handleRequest(host, method, path, addr)
    /\ UNCHANGED <<hosts, registered, chain, used, notFound, restrictionType,
                   allowedAddresses, deniedAddresses>>
    /\ UNCHANGED <<trieVars, dispatcher, server>>

\* the response is written and the request ends
Respond ==
    /\ resp # NoResponse
    /\ resp' = NoResponse
    /\ UNCHANGED <<hosts, registered, chain, used, notFound, restrictionType,
                   allowedAddresses, deniedAddresses>>
    /\ UNCHANGED <<trieVars, dispatcher, server>>

Next ==
    \/ \E name \in NamedHosts : Host(name)
    \/ \E h \in NamedHosts \cup {DefaultHost}, m \in Methods, e \in Endpoints :
          Register(h, m, e)
    \/ SetNotFound
    \/ \E ips \in AddressLists : AllowAccessExcept(ips)
    \/ \E ips \in AddressLists : DenyAccessExcept(ips)
    \/ \E h \in RequestHosts, m \in Methods, p \in RequestPaths, a \in Addresses :
          HandleRequest(h, m, p, a)
    \/ Respond

TrieIdle ==
    /\ trie = newPrivTrie
    /\ inserted = <<>>
    /\ result = NoResult
    /\ tasks = NoTasks

Init == SrvInit /\ TrieIdle

Spec == Init /\ [][Next]_vars

\* the server-level variables while the trie-level specification runs
SrvIdle == SrvInit

(***************************************************************************)
(* Static-level specification: STATIC and the methods it registers         *)
(***************************************************************************)
\* the file-serving handler, r.serveFiles(folder, urlPrefix)
StaticHandler == Len(HostSeq) * Len(MethodSeq) * Len(EndpointSeq) + 1

\* mutant: STATIC registers GET and POST only
StaticMethods_GetPost == <<"GET", "POST">>

\* the methods STATIC registers, in the order of its calls
StaticMethods == <<"HEAD", "GET", "POST">>

StaticPrefixes == { <<"/", "a">>, <<"/", "b">> }
StaticRequestMethods == {"HEAD", "GET", "POST", "PUT"}
StaticPaths == { <<"/", "a">>, <<"/", "a", "/", "b">>, <<"/", "b", "/", "a">> }

\* r.HEAD(urlPrefix+"/*", fn); r.GET(...); r.POST(...)
RECURSIVE registerAll(_, _, _, _, _)
registerAll(nodes, methods, k, endpoint, fn) ==
    IF k > Len(methods) THEN nodes
    ELSE registerAll(register(nodes, methods[k], endpoint, fn), methods, k + 1,
                     endpoint, fn)

STATIC(host, urlPrefix) ==
    /\ resp = NoResponse
    /\ host \in DOMAIN hosts
    /\ LET endpoint == urlPrefix \o <<"/", "*">>
       IN  /\ <<host, "GET", endpoint>> \notin registered
           /\ hosts' = [hosts EXCEPT ![host] =
                           registerAll(@, StaticMethods, 1, endpoint, StaticHandler)]
           /\ registered' = registered \cup
                  {<<host, StaticMethods[k], endpoint>> : k \in 1..Len(StaticMethods)}
           /\ dispatcher' = dispatcher @@
                  (StaticHandler :> [kind |-> "route", fn |-> StaticHandler])
    /\ UNCHANGED <<chain, used, notFound, restrictionType, allowedAddresses,
                   deniedAddresses, resp>>
    /\ UNCHANGED <<trieVars, server>>

NextStatic ==
    \/ \E prefix \in StaticPrefixes : STATIC(DefaultHost, prefix)
    \/ \E e \in Endpoints : Register(DefaultHost, "GET", e)
    \/ SetNotFound
    \/ \E m \in StaticRequestMethods, p \in StaticPaths :
          HandleRequest("bar.test", m, p, "10.0.0.1")
    \/ Respond

SpecStatic == Init /\ [][NextStatic]_vars

(***************************************************************************)
(* Server-lifecycle specification: ListenAndServe, Shutdown and the        *)
(* requests served in between                                              *)
(***************************************************************************)
\* the values resolveTCPAddr can end with
ResolveOutcomes == {"ok", "resolve error", "listen error"}

\* mutant: the error of the server is returned as it is
startServerResult_Raw(err) == err

\* the end of startServer: "http: Server closed" is ignored as benign
startServerResult(err) ==
    IF err # "nil" /\ err = "ErrServerClosed" THEN "nil" ELSE err

\* ListenAndServe up to the call of f: the address is resolved and the
\* http.Server is created
ListenAndServe(outcome) ==
    /\ server.pc = "idle"
    /\ IF outcome # "ok"
       THEN server' = [server EXCEPT !.returned = outcome, !.stoppedBy = "address"]
       ELSE server' = [server EXCEPT !.pc = "starting", !.instance = TRUE,
                                     !.shuttingDown = FALSE, !.returned = "none",
                                     !.stoppedBy = "none"]
    /\ UNCHANGED <<hosts, registered, chain, used, notFound, restrictionType,
                   allowedAddresses, deniedAddresses, resp, dispatcher>>
    /\ UNCHANGED trieVars

\* f(): http.Server.ListenAndServe fails at once, with ErrServerClosed when
\* Shutdown was already called, or starts to serve
ServeBegin(outcome) ==
    /\ server.pc = "starting"
    /\ IF server.shuttingDown
       THEN server' = [server EXCEPT !.pc = "idle", !.stoppedBy = "Shutdown",
                          !.returned = startServerResult("ErrServerClosed")]
       ELSE IF outcome # "ok"
       THEN server' = [server EXCEPT !.pc = "idle", !.stoppedBy = "listener",
                          !.returned = startServerResult(outcome)]
       ELSE server' = [server EXCEPT !.pc = "serving",
                          !.atStart = [hosts |-> hosts, chain |-> chain]]
    /\ UNCHANGED <<hosts, registered, chain, used, notFound, restrictionType,
                   allowedAddresses, deniedAddresses, resp, dispatcher>>
    /\ UNCHANGED trieVars

\* f() returns: ErrServerClosed after Shutdown, the error of the listener
\* otherwise
ServeEnd(err) ==
    /\ server.pc = "serving"
    /\ resp = NoResponse
    /\ (err = "ErrServerClosed") = server.shuttingDown
    /\ server' = [server EXCEPT !.pc = "idle", !.returned = startServerResult(err),
                     !.stoppedBy = IF server.shuttingDown THEN "Shutdown"
                                   ELSE "listener"]
    /\ UNCHANGED <<hosts, registered, chain, used, notFound, restrictionType,
                   allowedAddresses, deniedAddresses, resp, dispatcher>>
    /\ UNCHANGED trieVars

Shutdown ==
    /\ IF ~server.instance
       THEN server' = [server EXCEPT !.shutdown = "nothing to stop"]
       ELSE server' = [server EXCEPT !.shutdown = "stopping", !.shuttingDown = TRUE]
    /\ UNCHANGED <<hosts, registered, chain, used, notFound, restrictionType,
                   allowedAddresses, deniedAddresses, resp, dispatcher>>
    /\ UNCHANGED trieVars

ServerPaths == { <<"/", "a">>, <<"/", "b">> }

NextServer ==
    \/ \E outcome \in ResolveOutcomes : ListenAndServe(outcome)
    \/ \E outcome \in {"ok", "listen error"} : ServeBegin(outcome)
    \/ \E err \in {"ErrServerClosed", "accept error"} : ServeEnd(err)
    \/ Shutdown
    \/ \E name \in NamedHosts : Host(name)
    \/ \E e \in Endpoints : Register(DefaultHost, "GET", e)
    \/ Use
    \/ \E p \in ServerPaths :
          server.pc = "serving" /\ HandleRequest("bar.test", "GET", p, "10.0.0.1")
    \/ Respond

SpecServer == Init /\ [][NextServer]_vars

(***************************************************************************)
(* Chain-level specification: one router, with the order of the Use and    *)
(* register calls noted                                                    *)
(***************************************************************************)
ChainPaths == { <<"/", "a">>, <<"/", "b">>, <<"/", "a", "/", "b">> }

NextChain ==
    \/ \E e \in Endpoints : Register(DefaultHost, "GET", e)
    \/ Use
    \/ SetNotFound
    \/ \E p \in ChainPaths : HandleRequest("bar.test", "GET", p, "10.0.0.1")
    \/ Respond

SpecChain == Init /\ [][NextChain]_vars

(***************************************************************************)
(* Trie-level specification: Insert and Search on one privTrie.  The i-th  *)
(* Insert call passes handler i, so every call has a handler of its own.   *)
(***************************************************************************)
TrieInit ==
    /\ trie = newPrivTrie
    /\ inserted = <<>>
    /\ result = NoResult
    /\ tasks = NoTasks

TrieInsert(endpoint) ==
    /\ result = NoResult
    /\ Len(inserted) < MaxInserts
    /\ trie' = Insert(trie, endpoint, Len(inserted) + 1)
    /\ inserted' = Append(inserted, endpoint)
    /\ UNCHANGED <<result, tasks>>
    /\ UNCHANGED srvVars

TrieSearch(endpoint) ==
    /\ result = NoResult
    /\ LET r == Search(trie, endpoint)
       IN  result' = [path |-> endpoint, found |-> r.found, handler |-> r.handler,
                      params |-> r.params, done |-> TRUE]
    /\ trie' = TrieAfterSearch(trie, endpoint)
    /\ UNCHANGED <<inserted, tasks>>
    /\ UNCHANGED srvVars

\* the caller takes the result of Search
TrieReturn ==
    /\ result # NoResult
    /\ result' = NoResult
    /\ UNCHANGED <<trie, inserted, tasks>>
    /\ UNCHANGED srvVars

TrieNext ==
    \/ \E e \in Patterns : TrieInsert(e)
    \/ \E e \in Paths : TrieSearch(e)
    \/ TrieReturn

InitTrie == TrieInit /\ SrvIdle

SpecTrie == InitTrie /\ [][TrieNext]_vars

(***************************************************************************)
(* Concurrent requests: every task runs the loop of Search one iteration   *)
(* at a time, on the same trie, with its own node, i and params; the       *)
(* handler of a matched request then reads the bindings of its request     *)
(***************************************************************************)
ConcPaths == { <<"/", "a">>, <<"/", "b">>, <<"/", "a", "/", "b">>,
               <<"/", "b", "/", "a">> }

\* mutant: params is one map shared by all the Search calls
Bind_Shared(ts, k, key, value) ==
    [j \in DOMAIN ts |-> [ts[j] EXCEPT !.params = Put(@, key, value)]]

\* params[node.children[nps].paramKey] = value, on the params of the call
Bind(ts, k, key, value) == [ts EXCEPT ![k].params = Put(@, key, value)]

\* handleRequest is called for a request: Search starts at the root
TaskBegin(k, path) ==
    /\ tasks[k].pc = "idle"
    /\ tasks' = [tasks EXCEPT ![k] = [NoTask EXCEPT !.pc = "search",
                                        !.path = path, !.i = 1]]
    /\ UNCHANGED <<trie, inserted, result>>
    /\ UNCHANGED srvVars

\* the end of Search: node.isTheEnd and params are returned
TaskOutcome(ts, k, node) ==
    [ts EXCEPT ![k].pc = IF trie[node].isTheEnd /\ trie[node].handler # NilHandler
                         THEN "matched" ELSE "notfound",
               ![k].node = node,
               ![k].handler = trie[node].handler]

\* one iteration of the loop of Search
TaskStep(k) ==
    /\ tasks[k].pc = "search"
    /\ LET t == tasks[k]
       IN  IF t.i > Len(t.path)
           THEN tasks' = TaskOutcome(tasks, k, t.node)
           ELSE LET step == SearchStep(trie, t.node, t.path[t.i])
                IN  CASE step = "literal" ->
                           tasks' = [tasks EXCEPT
                                        ![k].node = Append(t.node, t.path[t.i]),
                                        ![k].i = t.i + 1]
                      [] step = "param" ->
                           LET j == ValueEnd(t.path, t.i)
                               value == SubSeq(t.path, t.i, j - 1)
                               child == Append(t.node, nps)
                               bound == Bind(tasks, k, trie[child].paramKey, value)
                           IN  tasks' = [bound EXCEPT
                                            ![k].node = child,
                                            ![k].i = (t.i + Len(value) - 1) + 1]
                      [] step = "glob" ->
                           tasks' = TaskOutcome(tasks, k, Append(t.node, globSlot))
                      [] OTHER ->
                           tasks' = [tasks EXCEPT ![k].pc = "notfound"]
    /\ UNCHANGED <<trie, inserted, result>>
    /\ UNCHANGED srvVars

\* child.dispatcher(w, r): the handler reads the bindings kept in the
\* context of its request
TaskHandle(k) ==
    /\ tasks[k].pc = "matched"
    /\ tasks' = [tasks EXCEPT ![k].pc = "handled", ![k].seen = tasks[k].params]
    /\ UNCHANGED <<trie, inserted, result>>
    /\ UNCHANGED srvVars

\* the request ends
TaskEnd(k) ==
    /\ tasks[k].pc \in {"handled", "notfound"}
    /\ tasks' = [tasks EXCEPT ![k] = NoTask]
    /\ UNCHANGED <<trie, inserted, result>>
    /\ UNCHANGED srvVars

\* the routes are registered while no request is served
NextConc ==
    \/ \E e \in Patterns : tasks = NoTasks /\ TrieInsert(e)
    \/ \E k \in Tasks, p \in ConcPaths : TaskBegin(k, p)
    \/ \E k \in Tasks : TaskStep(k)
    \/ \E k \in Tasks : TaskHandle(k)
    \/ \E k \in Tasks : TaskEnd(k)

SpecConc == InitTrie /\ [][NextConc]_vars

(***************************************************************************)
(* Mark-level specification: Insert and Search on one privTrie, with       *)
(* patterns that carry "*" and ":" inside a segment or after a wildcard    *)
(***************************************************************************)
MarkPatterns ==
    { <<"/", "a">>,
      <<"/", "a", "/">>,
      <<"/", "a", "*", "b">>,
      <<"/", "a", ":", "b">>,
      <<"/", "a", "/", "*">>,
      <<"/", "a", "/", "*", "/", "b">> }

MarkPaths ==
    { <<"/", "a">>,
      <<"/", "a", "*", "b">>,
      <<"/", "a", "*">>,
      <<"/", "a", "a", "b">>,
      <<"/", "a", ":", "b">>,
      <<"/", "b", "b">>,
      <<"/", "a", "/">>,
      <<"/", "a", "/", "a">>,
      <<"/", "a", "/", "b", "/", "b">>,
      <<"/", "a", "/", "*", "/", "b">>,
      <<"/", "/", "a">> }

NextMarks ==
    \/ \E e \in MarkPatterns : TrieInsert(e)
    \/ \E e \in MarkPaths : TrieSearch(e)
    \/ TrieReturn

SpecMarks == InitTrie /\ [][NextMarks]_vars

(***************************************************************************)
(* Symbol-level specification: Insert and Search on one privTrie, with     *)
(* request paths that carry ":" and "*"                                    *)
(***************************************************************************)
SymbolPatterns ==
    { <<"/", ":", "x">>,
      <<"/", ":", ":">>,
      <<"/", "a", "/", ":", "x">>,
      <<"/", "*">>,
      <<"/", "a", "/", "*">> }

SymbolPaths ==
    { <<"/", ":">>,
      <<"/", "/">>,
      <<"/", "/", "b">>,
      <<"/", ":", "a">>,
      <<"/", "b">>,
      <<"/", "b", "a">>,
      <<"/", "*">>,
      <<"/", "a", "/", ":", "b">>,
      <<"/", "a", "/", "b", "b">>,
      <<"/", "a", "/", "*">> }

NextSymbols ==
    \/ \E e \in SymbolPatterns : TrieInsert(e)
    \/ \E e \in SymbolPaths : TrieSearch(e)
    \/ TrieReturn

SpecSymbols == InitTrie /\ [][NextSymbols]_vars

(***************************************************************************)
(* Patterns and paths read segment by segment, for stating the claims      *)
(***************************************************************************)
StartsWith(s, pre) == Len(pre) <= Len(s) /\ SubSeq(s, 1, Len(pre)) = pre

RECURSIVE SplitFrom(_, _, _)
SplitFrom(s, i, cur) ==
    IF i > Len(s) THEN <<cur>>
    ELSE IF s[i] = sep THEN <<cur>> \o SplitFrom(s, i + 1, <<>>)
    ELSE SplitFrom(s, i + 1, Append(cur, s[i]))

\* strings.Split(s, "/")
Segments(s) == SplitFrom(s, 1, <<>>)

IsParamSeg(seg) == Len(seg) > 1 /\ seg[1] = nps
SegName(seg) == SubSeq(seg, 2, Len(seg))
IsGlobSeg(seg) == seg = <<all>>

IsLiteralPattern(p) == \A i \in 1..Len(p) : p[i] \notin {nps, all}
IsGlobPattern(p) == Len(p) >= 2 /\ p[Len(p)] = all /\ p[Len(p) - 1] = sep
\* the text P of a pattern P/*
GlobPrefix(p) == SubSeq(p, 1, Len(p) - 2)

ParamIndexes(p) == {n \in 1..Len(Segments(p)) : IsParamSeg(Segments(p)[n])}

\* the trie node reached by the first n segments of a pattern
RECURSIVE NodeOfSegs(_, _)
NodeOfSegs(segs, n) ==
    IF n <= 1 THEN <<>>
    ELSE NodeOfSegs(segs, n - 1) \o <<sep>> \o
         (IF IsParamSeg(segs[n]) THEN <<nps>>
          ELSE IF IsGlobSeg(segs[n]) THEN <<globSlot>> ELSE segs[n])

\* the name the trie keeps for the n-th segment of pattern p
StoredName(t, p, n) == t[NodeOfSegs(Segments(p), n)].paramKey

Inserted(p) == \E i \in 1..Len(inserted) : inserted[i] = p
\* the handler of the latest Insert of pattern p
LastInsert(p) ==
    CHOOSE i \in 1..Len(inserted) :
        inserted[i] = p /\ \A k \in (i + 1)..Len(inserted) : inserted[k] # p
FirstInsert(p) ==
    CHOOSE i \in 1..Len(inserted) :
        inserted[i] = p /\ \A k \in 1..(i - 1) : inserted[k] # p

\* a literal route and a parameterized route that share a prefix and differ
\* at one position, as /a/b and /a/:x do
DifferAtOnePosition(lit, par) ==
    LET a == Segments(lit)
        b == Segments(par)
    IN  /\ IsLiteralPattern(lit)
        /\ Len(a) = Len(b)
        /\ \E n \in 1..Len(a) :
              /\ IsParamSeg(b[n])
              /\ \A k \in 1..Len(a) : k # n => a[k] = b[k]

(***************************************************************************)
(* C1: when a trie holds a literal route and a parameterized route that    *)
(* share a prefix and differ at one position, in either insertion order,   *)
(* Search on the literal path returns the literal route's handler and      *)
(* binds no parameter.                                                     *)
(***************************************************************************)
C1_LiteralPrecedence ==
    \A lit \in Patterns, par \in Patterns :
        ( /\ result.done
          /\ result.path = lit
          /\ Inserted(lit) /\ Inserted(par)
          /\ DifferAtOnePosition(lit, par) )
        => /\ result.found
           /\ result.handler = LastInsert(lit)
           /\ result.params = NoParams

\* the parameterized route was inserted first, then the literal one, then
\* the literal path was searched
C1_Witness ==
    \E lit \in Patterns, par \in Patterns :
        /\ result.done
        /\ Inserted(lit) /\ Inserted(par)
        /\ DifferAtOnePosition(lit, par)
        /\ FirstInsert(par) < FirstInsert(lit)
        /\ result.path = lit
        /\ result.found

DistinctStoredNames(t, p) ==
    \A m \in ParamIndexes(p), n \in ParamIndexes(p) :
        m # n => StoredName(t, p, m) # StoredName(t, p, n)

HasRival(g, char) ==
    \E r \in Patterns :
        /\ Inserted(r)
        /\ \/ StartsWith(r, GlobPrefix(g) \o <<sep, char>>)
           \/ StartsWith(r, GlobPrefix(g) \o <<sep, nps>>)

C4_ParamBeforeWildcard ==
    \A g \in Patterns, r \in Patterns :
        ( /\ result.done
          /\ IsGlobPattern(g) /\ Inserted(g) /\ IsLiteralPattern(GlobPrefix(g))
          /\ Inserted(r) /\ StartsWith(r, GlobPrefix(g) \o <<sep, nps>>)
          /\ StartsWith(result.path, Append(GlobPrefix(g), sep))
          /\ Len(result.path) > Len(GlobPrefix(g)) + 1
          /\ ~HasChild(trie, Append(GlobPrefix(g), sep), result.path[Len(GlobPrefix(g)) + 2]) )
        => LET n == Len(Segments(g))
               name == StoredName(trie, r, n)
           IN  /\ ~(result.found /\ result.handler = LastInsert(g))
               /\ result.found =>
                     /\ name \in DOMAIN result.params
                     /\ Len(Segments(inserted[result.handler])) > n - 1
                     /\ IsParamSeg(Segments(inserted[result.handler])[n])

\* the wildcard was inserted before the parameterized route, and a path
\* with no literal child at their node was matched through the parameter
C4_Witness ==
    \E g \in Patterns, r \in Patterns :
        /\ result.done /\ result.found
        /\ Inserted(g) /\ IsGlobPattern(g)
        /\ Inserted(r) /\ StartsWith(r, GlobPrefix(g) \o <<sep, nps>>)
        /\ FirstInsert(g) < FirstInsert(r)
        /\ StartsWith(result.path, Append(GlobPrefix(g), sep))
        /\ Len(result.path) > Len(GlobPrefix(g)) + 1
        /\ ~HasChild(trie, Append(GlobPrefix(g), sep), result.path[Len(GlobPrefix(g)) + 2])
        /\ result.handler = LastInsert(r)

(***************************************************************************)
(* Requests and registrations read from the call history, for stating the  *)
(* server-level claims                                                     *)
(***************************************************************************)
Sites == (NamedHosts \cup {DefaultHost}) \X Methods \X Endpoints

\* the register call whose handler is fn
SiteOf(fn) == CHOOSE s \in Sites : HandlerOf(s[1], s[2], s[3]) = fn

\* the host whose routes a Host value selects
SelectedHost(host) == IF host \in DOMAIN hosts THEN host ELSE DefaultHost

\* the patterns registered for a method on a host
RegisteredOn(host, method) ==
    {e \in Endpoints : <<host, method, e>> \in registered}

HasTrieIndex(host, method) == RegisteredOn(host, method) # {}

\* a pattern accounts for the whole path: as many segments, each one equal
\* to the literal segment of the pattern or bound by its parameter
Accounts(pattern, path) ==
    LET ps == Segments(pattern)
        qs == Segments(path)
    IN  /\ Len(ps) = Len(qs)
        /\ \A n \in 1..Len(ps) :
              IF IsParamSeg(ps[n]) THEN qs[n] # <<>> ELSE ps[n] = qs[n]

NoPatternAccounts(host, method, path) ==
    \A e \in RegisteredOn(host, method) : ~Accounts(e, path)

\* the request ended in the NotFound handler when one is configured, in
\* the default 404 otherwise, and no route handler ran
NotFoundOutcome ==
    /\ notFound # "nil" => resp.served.kind = "notfound"
    /\ notFound = "nil" => resp.served.kind = "http.NotFound" /\ resp.status = 404
    /\ resp.served.kind \in {"notfound", "http.NotFound"}
    /\ \A k \in 1..Len(resp.trace) :
          resp.trace[k].ev = "serve" => resp.trace[k].by.kind # "route"

C6_MethodNotAllowed ==
    (resp.done /\ ~HasTrieIndex(SelectedHost(resp.host), resp.method))
    => /\ resp.status = 405
       /\ resp.served.kind = "none"
       /\ resp.trace = <<>>

\* a request with a malformed path and a method without Trie Index was
\* answered while a NotFound handler is configured and the other method
\* has routes on the selected host
C6_Witness ==
    /\ resp.done
    /\ ~HasTrieIndex(SelectedHost(resp.host), resp.method)
    /\ \E m \in Methods : HasTrieIndex(SelectedHost(resp.host), m)
    /\ ~ValidPath(resp.path)
    /\ notFound # "nil"
    /\ resp.status = 405

\* C7 as stated: every request whose path is empty or does not start with
\* "/" is answered 400, and Search is never run for it.
C7_Original ==
    (resp.done /\ (resp.path = <<>> \/ resp.path[1] # sep))
    => resp.status = 400 /\ ~resp.searched

\* C7: a request whose method has a Trie Index on the selected host and
\* whose path is empty or does not start with "/" is answered 400; for no
\* request with such a path, answered 400 or not, is Search run.
C7_BadRequest ==
    (resp.done /\ (resp.path = <<>> \/ resp.path[1] # sep))
    => /\ ~resp.searched
       /\ HasTrieIndex(SelectedHost(resp.host), resp.method) => resp.status = 400

\* a request for the path "a" was answered 400 on a host that has routes
\* for its method
C7_Witness ==
    /\ resp.done
    /\ resp.path = <<"a">>
    /\ HasTrieIndex(SelectedHost(resp.host), resp.method)
    /\ resp.status = 400

OutcomeOf(r) ==
    [status |-> r.status, searched |-> r.searched, served |-> r.served,
     params |-> r.params, trace |-> r.trace]

\* C9: a request for an unregistered host gets exactly the outcome of the
\* same method and path on the default host, and a request for a
\* registered host is answered from that host's routes only: 405 when the
\* host has no Trie Index for the method, and never by a route of the
\* default host.
C9_HostSelection ==
    resp.done =>
       /\ resp.host \notin DOMAIN hosts =>
             /\ OutcomeOf(resp) =
                   OutcomeOf(handleRequest(DefaultHost, resp.method, resp.path,
                                           resp.addr))
             /\ resp.served.kind = "route" =>
                   SiteOf(resp.served.fn)[1] = DefaultHost
       /\ resp.host \in DOMAIN hosts =>
             /\ resp.served.kind = "route" =>
                   SiteOf(resp.served.fn)[1] = resp.host
             /\ ~HasTrieIndex(resp.host, resp.method) => resp.status = 405

\* a request for the registered host was answered for a method and path
\* that only a route of the default host accounts for
C9_Witness ==
    /\ resp.done
    /\ resp.host = "foo.test"
    /\ resp.host \in DOMAIN hosts
    /\ \E e \in RegisteredOn(DefaultHost, resp.method) : Accounts(e, resp.path)
    /\ HasTrieIndex("foo.test", resp.method)
    /\ NoPatternAccounts("foo.test", resp.method, resp.path)
    /\ resp.served.kind # "route"

\* the run of W1(W2(...Wn(h))) for the wrappers ws = <<W1, ..., Wn>>
ExpectedTrace(ws, h) ==
    [k \in 1..Len(ws) |-> [ev |-> "before", by |-> ws[k]]]
    \o <<[ev |-> "serve", by |-> h]>>
    \o [k \in 1..Len(ws) |-> [ev |-> "after", by |-> ws[Len(ws) + 1 - k]]]

\* C10: after Use(W1), ..., Use(Wn) a matched request runs the code before
\* next of W1, ..., Wn in that order, then the route handler, then the
\* code after next of Wn, ..., W1.
C10_Original ==
    (resp.done /\ resp.served.kind = "route")
    => resp.trace = ExpectedTrace(used, resp.served)

\* the wrappers whose code ran before the handler that ended the request
RanBefore ==
    {resp.trace[k].by : k \in {i \in 1..Len(resp.trace) : resp.trace[i].ev = "before"}}

\* C11: the chain is global and applied when the request is dispatched: a
\* matched request runs every wrapper given to Use so far, those given
\* after the route was registered included.
C11_Original ==
    (resp.done /\ resp.served.kind = "route")
    => RanBefore = {used[k] : k \in 1..Len(used)}

\* C12: a request that ends in the not-found path runs every wrapper given
\* to Use, in the order of the Use calls, before the NotFound handler
\* (custom or default) is called.
C12_Original ==
    (resp.done /\ resp.served.kind \in {"notfound", "http.NotFound"})
    => /\ Len(resp.trace) >= Len(used) + 1
       /\ \A k \in 1..Len(used) :
             resp.trace[k] = [ev |-> "before", by |-> used[k]]
       /\ resp.trace[Len(used) + 1] = [ev |-> "serve", by |-> resp.served]

\* the nodes of a trie that end a pattern
Routes(t) == {node \in DOMAIN t : t[node].isTheEnd}

IsInnerStarPattern(p) ==
    /\ \E i \in 1..Len(p) : p[i] = all
    /\ \A i \in 1..Len(p) : p[i] = all => i > 1 /\ p[i - 1] # sep
    /\ \A i \in 1..Len(p) : p[i] # nps

\* C14: an asterisk that does not follow a separator is a literal
\* character: a pattern such as /a*b matches the path /a*b, with no
\* bindings, and serves no other path (neither /a nor /aab).
C14_InnerStarLiteral ==
    result.done =>
       /\ (Inserted(result.path) /\ IsInnerStarPattern(result.path))
          => /\ result.found
             /\ result.handler = LastInsert(result.path)
             /\ result.params = NoParams
       /\ (result.found /\ IsInnerStarPattern(inserted[result.handler]))
          => result.path = inserted[result.handler]

\* /a*b was inserted after /a and the path /a*b was found
C14_Witness ==
    /\ result.done
    /\ inserted = << <<"/", "a">>, <<"/", "a", "*", "b">> >>
    /\ result.path = <<"/", "a", "*", "b">>
    /\ result.found
    /\ result.handler = 2

\* a pattern without wildcard whose colons all stand inside a segment
IsInnerColonPattern(p) ==
    /\ \E i \in 1..Len(p) : p[i] = nps
    /\ \A i \in 1..Len(p) : p[i] = nps => i > 1 /\ p[i - 1] # sep
    /\ \A i \in 1..Len(p) : p[i] # all

\* C15 as stated: a colon that does not follow a separator is a literal
\* character and starts no parameter: a pattern such as /a:b matches the
\* path /a:b with empty bindings, and its route serves no other path.
C15_Original ==
    result.done =>
       /\ (Inserted(result.path) /\ IsInnerColonPattern(result.path))
          => /\ result.found
             /\ result.params = NoParams
       /\ (result.found /\ IsInnerColonPattern(inserted[result.handler]))
          => result.path = inserted[result.handler]

\* repeated separators collapsed into one
RECURSIVE Collapse(_)
Collapse(s) ==
    IF Len(s) < 2 THEN s
    ELSE IF s[1] = sep /\ s[2] = sep THEN Collapse(Tail(s))
    ELSE <<s[1]>> \o Collapse(Tail(s))

\* path.Clean on a path without dot segments: repeated separators are
\* collapsed and a trailing separator is dropped, except for the root
Clean(s) ==
    LET c == Collapse(s)
    IN  IF Len(c) > 1 /\ c[Len(c)] = sep THEN SubSeq(c, 1, Len(c) - 1) ELSE c

\* the trie of the first k Insert calls, had each pattern been cleaned
RECURSIVE CleanTrie(_)
CleanTrie(k) ==
    IF k = 0 THEN newPrivTrie
    ELSE Insert(CleanTrie(k - 1), Clean(inserted[k]), k)

\* C16 as stated: routing is invariant under slash normalisation of both
\* sides: registering p and requesting q has the outcome of registering
\* clean(p) and requesting clean(q).
C16_Original ==
    result.done =>
       LET r == Search(CleanTrie(Len(inserted)), Clean(result.path))
       IN  /\ result.found = r.found
           /\ result.handler = r.handler
           /\ result.params = r.params

\* a pattern up to and including its first wildcard mark
RECURSIVE UpToGlob(_, _)
UpToGlob(p, i) ==
    IF i > Len(p) THEN p
    ELSE IF IsGlobAt(p, i) THEN SubSeq(p, 1, i)
    ELSE UpToGlob(p, i + 1)

\* the trie of the first k Insert calls, had each pattern ended at its
\* first wildcard mark
RECURSIVE CutTrie(_)
CutTrie(k) ==
    IF k = 0 THEN newPrivTrie
    ELSE Insert(CutTrie(k - 1), UpToGlob(inserted[k], 1), k)

\* C17: what follows a wildcard segment in a pattern is discarded:
\* inserting X/*/Y builds the trie that inserting X/* builds, and the
\* route serves the paths below X/ whatever their end.
C17_AfterWildcardDiscarded ==
    /\ trie = CutTrie(Len(inserted))
    /\ (/\ result.done
        /\ result.path = <<"/", "a", "/", "b", "/", "b">>
        /\ Inserted(<<"/", "a", "/", "*", "/", "b">>))
       => /\ result.found
          /\ UpToGlob(inserted[result.handler], 1) = <<"/", "a", "/", "*">>

\* /a/*/b alone was inserted and served the path /a/b/b
C17_Witness ==
    /\ result.done
    /\ inserted = << <<"/", "a", "/", "*", "/", "b">> >>
    /\ result.path = <<"/", "a", "/", "b", "/", "b">>
    /\ result.found
    /\ result.handler = 1

\* the methods under which the default host serves the paths below a
\* prefix with the file-serving handler
StaticServedUnder(prefix) ==
    {m \in StaticRequestMethods :
        /\ m \in DOMAIN hosts[DefaultHost]
        /\ LET r == Search(hosts[DefaultHost][m], prefix \o <<"/", "b">>)
           IN  r.found /\ r.handler = StaticHandler}

\* C18 as stated: STATIC(folder, urlPrefix) registers urlPrefix/* with the
\* file-serving handler under GET and POST and under no other method.
C18_Original ==
    \A prefix \in StaticPrefixes :
       StaticServedUnder(prefix) \in {{}, {"GET", "POST"}}

\* C18: STATIC(folder, urlPrefix) registers urlPrefix/* with the
\* file-serving handler under HEAD, GET and POST and under no other
\* method; a request under another method is not served by it.
C18_StaticMethods ==
    /\ \A prefix \in StaticPrefixes :
          StaticServedUnder(prefix) \in {{}, {"HEAD", "GET", "POST"}}
    /\ (resp.done /\ resp.served.kind = "route" /\ resp.served.fn = StaticHandler)
       => resp.method \in {"HEAD", "GET", "POST"}

\* after STATIC with the prefix /a, a HEAD request for /a/b was served by
\* the file-serving handler
C18_Witness ==
    /\ StaticServedUnder(<<"/", "a">>) # {}
    /\ resp.done
    /\ resp.method = "HEAD"
    /\ resp.path = <<"/", "a", "/", "b">>
    /\ resp.served = [kind |-> "route", fn |-> StaticHandler]

SamePosition(p, n) ==
    {j \in 1..Len(inserted) :
        /\ n \in ParamIndexes(inserted[j])
        /\ NodeOfSegs(Segments(inserted[j]), n) = NodeOfSegs(Segments(p), n)}

\* the parameter name given to that position by the latest of these calls
LatestName(p, n) ==
    LET j == CHOOSE k \in SamePosition(p, n) : \A l \in SamePosition(p, n) : l <= k
    IN  SegName(Segments(inserted[j])[n])

\* C20 as stated: when patterns place differently named parameters at
\* the same trie position, the name kept there, and used to bind the value
\* in every later match through it, is the name of the most recently
\* inserted pattern.
C20_Original ==
    /\ \A i \in 1..Len(inserted) : \A n \in ParamIndexes(inserted[i]) :
          StoredName(trie, inserted[i], n) = LatestName(inserted[i], n)
    /\ (result.done /\ result.found)
       => DOMAIN result.params =
             {LatestName(inserted[result.handler], n) :
                 n \in ParamIndexes(inserted[result.handler])}

\* a pattern accepts a path: a wildcard pattern P/* accepts the paths whose
\* first segments P accounts for and that go on with at least one more
\* character; another pattern accepts the paths it accounts for
Accepts(pattern, path) ==
    LET ps == Segments(pattern)
        qs == Segments(path)
    IN  IF IsGlobPattern(pattern)
        THEN /\ Len(qs) >= Len(ps)
             /\ \A n \in 1..(Len(ps) - 1) :
                   IF IsParamSeg(ps[n]) THEN qs[n] # <<>> ELSE ps[n] = qs[n]
             /\ (Len(qs) > Len(ps) \/ qs[Len(ps)] # <<>>)
        ELSE /\ Len(ps) = Len(qs)
             /\ \A n \in 1..Len(ps) :
                   IF IsParamSeg(ps[n]) THEN qs[n] # <<>> ELSE ps[n] = qs[n]

RootGlob == <<sep, all>>

RECURSIVE Visits(_, _, _, _)
Visits(t, node, endpoint, i) ==
    IF i > Len(endpoint) THEN {}
    ELSE LET step == SearchStep(t, node, endpoint[i])
         IN  {<<node, i>>} \cup
             (CASE step = "literal" ->
                     Visits(t, Append(node, endpoint[i]), endpoint, i + 1)
                [] step = "param" ->
                     Visits(t, Append(node, nps), endpoint,
                            IF ValueEnd(endpoint, i) = i THEN i
                            ELSE ValueEnd(endpoint, i))
                [] OTHER -> {})

\* the trie t2 has, at a node the search of the path stands on in t, a child
\* the search takes before the one it takes in t
Diverts(t, t2, endpoint) ==
    \E v \in Visits(t, <<>>, endpoint, 1) :
        SearchStep(t2, v[1], endpoint[v[2]]) # SearchStep(t, v[1], endpoint[v[2]])

\* the pattern given to the Insert call that this step is
NewPattern == inserted'[Len(inserted')]

\* a trie that holds the pattern alone matches the path
MatchesAlone(pattern, path) == Search(Insert(newPrivTrie, pattern, 1), path).found

\* C22 as stated: an Insert never changes the result of Search for a path
\* that matched before and that the new pattern does not itself match.
C22_Original ==
    [][ inserted' # inserted =>
          \A q \in Paths :
              (Search(trie, q).found /\ ~MatchesAlone(NewPattern, q))
              => Search(trie', q) = Search(trie, q) ]_vars

\* C22: an Insert leaves the result of Search unchanged, handler and
\* bindings included, for a path that matched before, that the new
\* pattern does not itself match and whose search meets no node where the new
\* pattern adds a child that Search prefers for the character read there
\* (a literal child where it took the parameter or the wildcard, a
\* parameter child where it took the wildcard).
C22_InsertFrame ==
    [][ inserted' # inserted =>
          \A q \in Paths :
              (/\ Search(trie, q).found
               /\ ~MatchesAlone(NewPattern, q)
               /\ ~Diverts(trie, trie', q))
              => Search(trie', q) = Search(trie, q) ]_vars

\* /:x then /a/b were inserted; the path /b, which matched /:x before the
\* second Insert and which /a/b neither matches nor diverts, still matches
\* with the same handler and binding
C22_Witness ==
    /\ inserted = << <<"/", ":", "x">>, <<"/", "a", "/", "b">> >>
    /\ result.done
    /\ result.path = <<"/", "b">>
    /\ Search(Insert(newPrivTrie, <<"/", ":", "x">>, 1), <<"/", "b">>).found
    /\ ~Diverts(Insert(newPrivTrie, <<"/", ":", "x">>, 1), trie, <<"/", "b">>)
    /\ result.found /\ result.handler = 1
    /\ result.params = (<<"x">> :> <<"b">>)

\* C23 as stated: while the server serves, the host table, its tries and
\* the chain are the ones of the moment the server began to serve.
C23_Original ==
    server.pc = "serving"
    => (hosts = server.atStart.hosts /\ chain = server.atStart.chain)

\* C23: the handling of a request and the steps of ListenAndServe and
\* Shutdown change no trie, no host and no chain; the registration calls
\* do, also while the server serves, and a request is answered from the
\* host table of the moment it is dispatched: a literal pattern registered
\* on the default host, before or after the server began to serve, serves
\* the request for its path.
C23_RoutingState ==
    /\ [][ (resp' # resp \/ server' # server)
             => UNCHANGED <<hosts, chain, dispatcher>> ]_vars
    /\ []( (resp.done /\ server.pc = "serving")
            => \A e \in RegisteredOn(DefaultHost, resp.method) :
                  (IsLiteralPattern(e) /\ resp.path = e)
                  => resp.served = [kind |-> "route",
                                    fn |-> HandlerOf(DefaultHost, resp.method, e)] )

\* a route registered while the server was serving served a request
C23_Witness ==
    /\ server.pc = "serving"
    /\ resp.done
    /\ resp.served.kind = "route"
    /\ DefaultHost \in DOMAIN server.atStart.hosts
    /\ "GET" \notin DOMAIN server.atStart.hosts[DefaultHost]
    /\ resp.path = <<"/", "a">>
    /\ resp.served.fn = HandlerOf(DefaultHost, "GET", <<"/", "a">>)

C25_OwnBindings ==
    \A k \in Tasks :
        LET alone == Search(trie, tasks[k].path)
        IN  /\ tasks[k].pc = "handled"
               => /\ alone.found
                  /\ tasks[k].handler = alone.handler
                  /\ tasks[k].seen = alone.params
            /\ tasks[k].pc = "notfound"
               => (~alone.found \/ alone.handler = NilHandler)

\* a handler has read the binding of its request while another request,
\* part-way through its Search, holds another value for the same name
C25_Witness ==
    \E k \in Tasks, j \in Tasks :
        /\ tasks[k].pc = "handled"
        /\ tasks[j].pc = "search"
        /\ DOMAIN tasks[k].seen # {}
        /\ DOMAIN tasks[k].seen = DOMAIN tasks[j].params
        /\ tasks[k].seen # tasks[j].params

\* a text with every ":" and "*" replaced by a character that no pattern
\* of SymbolPatterns has
Plain(text) ==
    [k \in 1..Len(text) |-> IF text[k] \in {nps, all} THEN "b" ELSE text[k]]

\* C26: ":" and "*" have no special meaning in a request path: a path
\* that carries them has the outcome of the same path with ordinary
\* characters in their place (same handler, same names bound, to the
\* values at the same places); so /:a matches /:x and binds x to ":a".
C26_Original ==
    result.done
    => LET plain == Search(trie, Plain(result.path))
       IN  /\ result.found = plain.found
           /\ result.handler = plain.handler
           /\ DOMAIN result.params = DOMAIN plain.params
           /\ \A k \in DOMAIN result.params :
                 Plain(result.params[k]) = plain.params[k]

\* C27: a parameter never binds the empty string: a path matches a pattern
\* only when every parameter position of the pattern holds at least one
\* character of the path, and no binding of a match is empty.
C27_Original ==
    (result.done /\ result.found)
    => LET p == inserted[result.handler]
           req == Segments(result.path)
       IN  /\ \A k \in DOMAIN result.params : result.params[k] # <<>>
           /\ \A n \in ParamIndexes(p) : n <= Len(req) /\ req[n] # <<>>

\* the right-most position of the matched pattern at which the trie keeps
\* the name
LastPositionOf(p, name) ==
    LET idx == {n \in ParamIndexes(p) : StoredName(trie, p, n) = name}
    IN  CHOOSE n \in idx : \A m \in idx : m <= n

C29_RootWildcardSlash ==
    ( /\ result.done
      /\ result.path = <<sep>>
      /\ Inserted(RootGlob)
      /\ ~Inserted(<<sep>>) )
    => /\ result.found
       /\ result.handler = LastInsert(RootGlob)
       /\ result.params = NoParams

\* /* was inserted, / was not, and the path / was searched
C29_Witness ==
    /\ result.done
    /\ result.path = <<sep>>
    /\ Inserted(RootGlob)
    /\ ~Inserted(<<sep>>)
    /\ Len(inserted) = 2
    /\ result.found

\* the separators of a path after its first character: the places where a
\* parameter step can consume no character
InnerSeparators(path) == Cardinality({k \in 2..Len(path) : path[k] = sep})

\* C30: Search ends on every trie and every path, after a number of
\* transitions that is at most the length of the path plus the number of
\* its separators, hence at most twice its length: a parameter step that
\* consumes no character happens at a separator, at most once for each.
C30_LinearSearch ==
    result.done
    => /\ Iterations(trie, <<>>, result.path, 1)
             <= Len(result.path) + InnerSeparators(result.path)
       /\ Iterations(trie, <<>>, result.path, 1) <= 2 * Len(result.path)

\* a search that took a parameter step on no character, at a separator
\* that follows another one, and so made more transitions than the path
\* has characters
C30_Witness ==
    /\ result.done
    /\ result.path = <<"/", "/", "b">>
    /\ Inserted(<<"/", ":", "x">>)
    /\ Iterations(trie, <<>>, result.path, 1) > Len(result.path) - 1
    /\ Iterations(trie, <<>>, result.path, 1) = 3

====
